---- MODULE Spec2Model ----
(***************************************************************************)
(* State-machine model of src/server.js: an express ingress that validates *)
(* requests and adds them to a main job queue, a main-queue handler that   *)
(* routes every job to one of three regional queues, three regional        *)
(* handlers that call a mock backend, and the signal-driven shutdown.      *)
(*                                                                         *)
(* The queue objects come from the queue library; the model gives them the *)
(* contract the program relies on: add appends once the store commits (or  *)
(* rejects), the registered handler is driven on the oldest job, one job   *)
(* at a time, the job leaves the queue when the handler calls done(), size *)
(* counts the jobs that are pending or in flight, and drain() resolves     *)
(* when the queue is empty.                                                *)
(***************************************************************************)
EXTENDS Integers, Sequences, FiniteSets, TLC

\* ------------------------------------------------------------------ bounds
MaxJobs == 2       \* requests accepted by manageQueues in one run
MaxClock == 1      \* largest reading of Date.now() in one run

\* --------------------------------------------------------------- constants
Undefined == "undefined"          \* a field the request does not carry
RegionalQueues == {"usaQueue", "europeQueue", "indiaQueue"}
Queues == {"mainQueue"} \cup RegionalQueues
NoQueue == "none"
ApiV1 == "/api/v1/resource"
ApiV2 == "/api/v2/resource"

\* The requests the ingress is offered: the well-formed ones for the three
\* regions and for an unknown location, and the ones lacking a field.
Requests ==
    { [method |-> "GET", url |-> ApiV1, location |-> l] :
          l \in {"USA", "Europe", "India", "Mars"} }
    \cup { [method |-> Undefined, url |-> ApiV1, location |-> "USA"],
           [method |-> "GET", url |-> Undefined, location |-> "Europe"],
           [method |-> "GET", url |-> ApiV1, location |-> Undefined] }

VARIABLES
    procState,    \* "running", "crashed" (uncaught error) or "exited" (process.exit)
    exitCode,     \* argument of process.exit, -1 while none was made
    crashCause,   \* what threw when procState = "crashed"
    clock,        \* the last reading of Date.now()
    req,          \* the request the middleware chain handled last
    resp,         \* the response to the request handled last
    nextKey,      \* number of accepted requests + 1; keys stand for job identity
    accepted,     \* key -> the job made for the request and the status answered
    pendingMain,  \* mainQueue.add calls issued and not yet settled
    mainFailed,   \* keys whose mainQueue.add was rejected
    mainQ,        \* mainQueue: pending and in-flight jobs, oldest first
    mainPhase,    \* position of the main-queue handler on Head(mainQ)
    regQ,         \* the three regional queues
    queueLogs,    \* the queueLogs array
    errLog,       \* console.error calls of the handlers
    regIssued,    \* history: <<key, queue>> of every regional add called
    regAdded,     \* history per regional queue: keys whose add committed
    regFailed,    \* keys whose regional add was rejected
    mainDone,     \* keys whose main-queue job was completed by done()
    invoked,      \* history per regional queue: keys handed to the backend
    timers,       \* pending setTimeout callbacks of the backend variants
    shutdown,     \* gracefulShutdown has been called
    drained,      \* queues whose drain() promise has resolved
    console,      \* the console.log lines of the last run of the reporter
    backendFailed \* keys of the jobs whose backend callback threw

vars == <<procState, exitCode, crashCause, clock, req, resp, nextKey, accepted,
          pendingMain, mainFailed, mainQ, mainPhase, regQ, queueLogs, errLog,
          regIssued, regAdded, regFailed, mainDone, invoked, timers,
          shutdown, drained, console, backendFailed>>

\* ----------------------------------------------------------------- helpers
\* JavaScript truthiness of a request field: undefined and "" are falsy.
Truthy(v) == v # Undefined /\ v # ""

NoRequest == [method |-> "", url |-> "", location |-> ""]
NoResponse == [status |-> 0, field |-> "", text |-> ""]

\* queue.size
size(q) == IF q = "mainQueue" THEN Len(mainQ) ELSE Len(regQ[q])

\* validateRequest: TRUE when it calls next(), FALSE when it answers 400.
validateRequestNoLocation(r) == ~(~Truthy(r.method) \/ ~Truthy(r.url))
validateRequest(r) ==
    ~(~Truthy(r.method) \/ ~Truthy(r.url) \/ ~Truthy(r.location))

\* The if / else-if chain of the main-queue handler: the queue a location
\* is routed to, NoQueue for the final else.
RegionOfNoEurope(location) ==
    IF location = "USA" THEN "usaQueue"
    ELSE IF location = "India" THEN "indiaQueue"
    ELSE NoQueue
RegionOfEuropeToUsa(location) ==
    IF location = "USA" THEN "usaQueue"
    ELSE IF location = "Europe" THEN "usaQueue"
    ELSE IF location = "India" THEN "indiaQueue"
    ELSE NoQueue
RegionOfDefault(location) ==
    IF location = "USA" THEN "usaQueue"
    ELSE IF location = "Europe" THEN "europeQueue"
    ELSE "indiaQueue"
RegionOf(location) ==
    IF location = "USA" THEN "usaQueue"
    ELSE IF location = "Europe" THEN "europeQueue"
    ELSE IF location = "India" THEN "indiaQueue"
    ELSE NoQueue

\* The object the regional handlers pass as res: { json: () => {} }.
WorkerRes == {"json"}

\* The setTimeout callback of a backend variant, res.status(200).json(...):
\* it throws a TypeError when res has no status method.
handleRequestCallback(res) ==
    IF "status" \in res THEN "ok" ELSE "TypeError"

\* -------------------------------------------------------------------- Init
Init ==
    /\ procState = "running"
    /\ exitCode = -1
    /\ crashCause = "none"
    /\ clock = 0
    /\ req = NoRequest
    /\ resp = NoResponse
    /\ nextKey = 1
    /\ accepted = <<>>
    /\ pendingMain = <<>>
    /\ mainFailed = {}
    /\ mainQ = <<>>
    /\ mainPhase = "idle"
    /\ regQ = [q \in RegionalQueues |-> <<>>]
    /\ queueLogs = <<>>
    /\ errLog = <<>>
    /\ regIssued = <<>>
    /\ regAdded = [q \in RegionalQueues |-> <<>>]
    /\ regFailed = {}
    /\ mainDone = {}
    /\ invoked = [q \in RegionalQueues |-> <<>>]
    /\ timers = {}
    /\ shutdown = FALSE
    /\ drained = {}
    /\ console = <<>>
    /\ backendFailed = {}

\* ----------------------------------------------------------------- ingress
\* manageQueues on request r, Date.now() reading now: the add is called and
\* not awaited, the log entry is pushed and 202 is answered.
manageQueuesNoLog(r, now) ==
    LET job == [key |-> nextKey, method |-> r.method, url |-> r.url,
                location |-> r.location, requestId |-> now]
    IN /\ clock' = now
       /\ pendingMain' = Append(pendingMain, job)
       /\ queueLogs' = queueLogs
       /\ resp' = [status |-> 202, field |-> "message",
                   text |-> "Request queued for processing"]
       /\ accepted' = Append(accepted, [job |-> job, status |-> 202])
       /\ nextKey' = nextKey + 1
manageQueues(r, now) ==
    LET job == [key |-> nextKey, method |-> r.method, url |-> r.url,
                location |-> r.location, requestId |-> now]
    IN /\ clock' = now
       /\ pendingMain' = Append(pendingMain, job)
       /\ queueLogs' = Append(queueLogs, [queue |-> "mainQueue", request |-> job])
       /\ resp' = [status |-> 202, field |-> "message",
                   text |-> "Request queued for processing"]
       /\ accepted' = Append(accepted, [job |-> job, status |-> 202])
       /\ nextKey' = nextKey + 1

\* app.use(validateRequest, manageQueues): the middleware chain on request r.
\* The clock never runs backwards between two readings.
Ingress(r, now) ==
    /\ procState = "running"
    /\ now >= clock
    /\ validateRequest(r) => nextKey <= MaxJobs
    /\ req' = r
    /\ IF validateRequest(r)
         THEN manageQueues(r, now)
         ELSE /\ resp' = [status |-> 400, field |-> "error",
                          text |-> "Invalid request"]
              /\ UNCHANGED <<clock, nextKey, accepted, pendingMain, queueLogs>>
    /\ UNCHANGED <<procState, exitCode, crashCause, mainFailed, mainQ,
                   mainPhase, regQ, errLog, regIssued, regAdded, regFailed,
                   mainDone, invoked, timers, shutdown, drained,
                   console, backendFailed>>

\* The store commits the oldest outstanding mainQueue.add.
MainAddCommit ==
    /\ procState = "running"
    /\ pendingMain # <<>>
    /\ mainQ' = Append(mainQ, Head(pendingMain))
    /\ pendingMain' = Tail(pendingMain)
    /\ UNCHANGED <<procState, exitCode, crashCause, clock, req, resp, nextKey,
                   accepted, mainFailed, mainPhase, regQ, queueLogs, errLog,
                   regIssued, regAdded, regFailed, mainDone, invoked, timers,
                   shutdown, drained, console, backendFailed,
                   console, backendFailed>>

\* The store rejects the oldest outstanding mainQueue.add. Nothing handles
\* the rejected promise: the runtime either warns or ends the process.
MainAddFail ==
    /\ procState = "running"
    /\ pendingMain # <<>>
    /\ mainFailed' = mainFailed \cup {Head(pendingMain).key}
    /\ pendingMain' = Tail(pendingMain)
    /\ \/ UNCHANGED <<procState, crashCause>>
       \/ /\ procState' = "crashed"
          /\ crashCause' = "unhandledRejection"
    /\ UNCHANGED <<exitCode, clock, req, resp, nextKey, accepted, mainQ,
                   mainPhase, regQ, queueLogs, errLog, regIssued, regAdded,
                   regFailed, mainDone, invoked, timers, shutdown, drained,
                   console, backendFailed>>

\* ------------------------------------------------- main-queue handler
\* done() of the main-queue handler: the job in flight leaves mainQueue.
mainJobDone ==
    /\ mainQ' = Tail(mainQ)
    /\ mainDone' = mainDone \cup {Head(mainQ).key}

\* The handler is driven on the oldest job, whose location is one of the
\* three regions: it calls add on that region's queue and suspends at await.
DispatchRoute ==
    /\ procState = "running"
    /\ mainPhase = "idle"
    /\ mainQ # <<>>
    /\ RegionOf(Head(mainQ).location) # NoQueue
    /\ regIssued' = Append(regIssued,
                           <<Head(mainQ).key, RegionOf(Head(mainQ).location)>>)
    /\ mainPhase' = "awaiting"
    /\ UNCHANGED <<procState, exitCode, crashCause, clock, req, resp, nextKey,
                   accepted, pendingMain, mainFailed, mainQ, regQ, queueLogs,
                   errLog, regAdded, regFailed, mainDone, invoked, timers,
                   shutdown, drained, console, backendFailed,
                   console, backendFailed>>

\* The handler is driven on the oldest job, whose location matches no
\* branch: console.error, then done() in the finally block.
DispatchUnroutable ==
    /\ procState = "running"
    /\ mainPhase = "idle"
    /\ mainQ # <<>>
    /\ RegionOf(Head(mainQ).location) = NoQueue
    /\ errLog' = Append(errLog, [msg |-> "Invalid location",
                                 key |-> Head(mainQ).key,
                                 location |-> Head(mainQ).location,
                                 requestId |-> Head(mainQ).requestId])
    /\ mainJobDone
    /\ UNCHANGED <<procState, exitCode, crashCause, clock, req, resp, nextKey,
                   accepted, pendingMain, mainFailed, mainPhase, regQ, queueLogs,
                   regIssued, regAdded, regFailed, invoked, timers, shutdown,
                   drained,
                   console, backendFailed>>

\* The store commits the regional add the handler is awaiting.
RegionalAddCommit ==
    /\ procState = "running"
    /\ mainPhase = "awaiting"
    /\ LET job == Head(mainQ)
           q == RegionOf(job.location)
       IN /\ regQ' = [regQ EXCEPT ![q] =
                        Append(@, [key |-> job.key, method |-> job.method,
                                   url |-> job.url, requestId |-> job.requestId])]
          /\ regAdded' = [regAdded EXCEPT ![q] = Append(@, job.key)]
    /\ mainPhase' = "added"
    /\ UNCHANGED <<procState, exitCode, crashCause, clock, req, resp, nextKey,
                   accepted, pendingMain, mainFailed, mainQ, queueLogs, errLog,
                   regIssued, regFailed, mainDone, invoked, timers, shutdown,
                   drained,
                   console, backendFailed>>

\* The store rejects the regional add the handler is awaiting.
RegionalAddFail ==
    /\ procState = "running"
    /\ mainPhase = "awaiting"
    /\ regFailed' = regFailed \cup {Head(mainQ).key}
    /\ mainPhase' = "failed"
    /\ UNCHANGED <<procState, exitCode, crashCause, clock, req, resp, nextKey,
                   accepted, pendingMain, mainFailed, mainQ, regQ, queueLogs,
                   errLog, regIssued, regAdded, mainDone, invoked, timers,
                   shutdown, drained, console, backendFailed,
                   console, backendFailed>>

\* The handler resumes after the await: the log entry is pushed when the add
\* resolved, the catch block logs when it was rejected, finally done().
DispatchResume ==
    /\ procState = "running"
    /\ mainPhase \in {"added", "failed"}
    /\ LET job == Head(mainQ)
       IN IF mainPhase = "added"
            THEN /\ queueLogs' = Append(queueLogs,
                                        [queue |-> RegionOf(job.location),
                                         request |-> job])
                 /\ UNCHANGED errLog
            ELSE /\ errLog' = Append(errLog, [msg |-> "Error processing job",
                                              key |-> job.key,
                                              location |-> job.location,
                                              requestId |-> job.requestId])
                 /\ UNCHANGED queueLogs
    /\ mainJobDone
    /\ mainPhase' = "idle"
    /\ UNCHANGED <<procState, exitCode, crashCause, clock, req, resp, nextKey,
                   accepted, pendingMain, mainFailed, regQ, regIssued, regAdded,
                   regFailed, invoked, timers, shutdown, drained,
                   console, backendFailed>>

\* ---------------------------------------------------- regional handlers
\* The job a regional handler is driven on.
nextJobNewest(q) == regQ[q][Len(regQ[q])]
nextJob(q) == Head(regQ[q])

\* The queue after done() of the regional handler.
afterDoneKeepsJob(q) == regQ[q]
afterDoneDropsTwo(q) ==
    IF Len(regQ[q]) >= 2 THEN Tail(Tail(regQ[q])) ELSE Tail(regQ[q])
afterDone(q) == Tail(regQ[q])

\* usaQueue.process / europeQueue.process / indiaQueue.process: a backend
\* variant is picked at random, its handleRequest sets a timer and returns,
\* and done() is called in the finally block.
RegionalProcess(q, api) ==
    /\ procState = "running"
    /\ regQ[q] # <<>>
    /\ invoked' = [invoked EXCEPT ![q] = Append(@, nextJob(q).key)]
    /\ timers' = timers \cup {[key |-> nextJob(q).key, endpoint |-> api]}
    /\ regQ' = [regQ EXCEPT ![q] = afterDone(q)]
    /\ UNCHANGED <<procState, exitCode, crashCause, clock, req, resp, nextKey,
                   accepted, pendingMain, mainFailed, mainQ, mainPhase,
                   queueLogs, errLog, regIssued, regAdded, regFailed, mainDone,
                   shutdown, drained, console, backendFailed,
                   console, backendFailed>>

\* A backend timer expires and its callback runs on the res of the worker.
\* An error thrown there has no handler above it and ends the process.
TimerFire(t) ==
    /\ procState = "running"
    /\ t \in timers
    /\ timers' = timers \ {t}
    /\ IF handleRequestCallback(WorkerRes) = "ok"
         THEN UNCHANGED <<procState, crashCause, backendFailed>>
         ELSE /\ procState' = "crashed"
              /\ crashCause' = "backendCallback"
              /\ backendFailed' = backendFailed \cup {t.key}
    /\ UNCHANGED <<exitCode, clock, req, resp, nextKey, accepted, pendingMain,
                   mainFailed, mainQ, mainPhase, regQ, queueLogs, errLog,
                   regIssued, regAdded, regFailed, mainDone, invoked, shutdown,
                   drained,
                   console>>

\* ----------------------------------------------------------------- shutdown
\* SIGTERM or SIGINT: gracefulShutdown calls drain() on the four queues. A
\* repeated signal starts drains that resolve under the same condition, so
\* one set of flags stands for all of them.
Signal ==
    /\ procState = "running"
    /\ ~shutdown
    /\ shutdown' = TRUE
    /\ UNCHANGED <<procState, exitCode, crashCause, clock, req, resp, nextKey,
                   accepted, pendingMain, mainFailed, mainQ, mainPhase, regQ,
                   queueLogs, errLog, regIssued, regAdded, regFailed, mainDone,
                   invoked, timers, drained,
                   console, backendFailed>>

\* waitForQueueDrain: the drain() promise of queue q resolves, the queue
\* being empty.
DrainResolve(q) ==
    /\ procState = "running"
    /\ shutdown
    /\ q \notin drained
    /\ size(q) = 0
    /\ drained' = drained \cup {q}
    /\ UNCHANGED <<procState, exitCode, crashCause, clock, req, resp, nextKey,
                   accepted, pendingMain, mainFailed, mainQ, mainPhase, regQ,
                   queueLogs, errLog, regIssued, regAdded, regFailed, mainDone,
                   invoked, timers, shutdown,
                   console, backendFailed>>

\* The drain() promise of queue q is rejected: Promise.all rejects and the
\* catch callback logs the error (the queue is not named) and exits with
\* code 1.
DrainFailExitsZero(q) ==
    /\ procState = "running"
    /\ shutdown
    /\ q \notin drained
    /\ procState' = "exited"
    /\ exitCode' = 0
    /\ UNCHANGED <<crashCause, clock, req, resp, nextKey, accepted, pendingMain,
                   mainFailed, mainQ, mainPhase, regQ, queueLogs, errLog,
                   regIssued, regAdded, regFailed, mainDone, invoked, timers,
                   shutdown, drained, console, backendFailed,
                   console, backendFailed>>
DrainFail(q) ==
    /\ procState = "running"
    /\ shutdown
    /\ q \notin drained
    /\ procState' = "exited"
    /\ exitCode' = 1
    /\ errLog' = Append(errLog, [msg |-> "Error during graceful shutdown",
                                 key |-> 0, location |-> "", requestId |-> -1])
    /\ UNCHANGED <<crashCause, clock, req, resp, nextKey, accepted, pendingMain,
                   mainFailed, mainQ, mainPhase, regQ, queueLogs, regIssued,
                   regAdded, regFailed, mainDone, invoked, timers, shutdown,
                   drained,
                   console, backendFailed>>

\* Promise.all of the four drains has resolved: process.exit(0).
ExitZero ==
    /\ procState = "running"
    /\ drained = Queues
    /\ procState' = "exited"
    /\ exitCode' = 0
    /\ UNCHANGED <<crashCause, clock, req, resp, nextKey, accepted, pendingMain,
                   mainFailed, mainQ, mainPhase, regQ, queueLogs, errLog,
                   regIssued, regAdded, regFailed, mainDone, invoked, timers,
                   shutdown, drained, console, backendFailed,
                   console, backendFailed>>

\* ----------------------------------------------------------------- reporter
\* The lines the setInterval callback prints: the header, the size lines
\* (the Europe line only when that size is truthy), "Queue logs:" and one
\* line per entry of queueLogs.
sizeLine(text, q) == [text |-> text, arg |-> <<size(q)>>]
logLine(log) ==
    [text |-> "queue:",
     arg |-> <<log.queue, log.request.method, log.request.url,
               log.request.location, log.request.requestId>>]
ReportLines ==
    <<[text |-> "Queue performance analysis:", arg |-> <<>>],
      sizeLine("Main queue size:", "mainQueue"),
      sizeLine("USA queue size:", "usaQueue")>>
    \o (IF size("europeQueue") # 0
          THEN <<sizeLine("Europe queue size:", "europeQueue")>>
          ELSE <<>>)
    \o <<sizeLine("India queue size:", "indiaQueue"),
         [text |-> "Queue logs:", arg |-> <<>>]>>
    \o [i \in 1..Len(queueLogs) |-> logLine(queueLogs[i])]

\* The interval of 10 seconds elapses and the callback runs.
Report ==
    /\ procState = "running"
    /\ console' = ReportLines
    /\ UNCHANGED <<procState, exitCode, crashCause, clock, req, resp, nextKey,
                   accepted, pendingMain, mainFailed, mainQ, mainPhase, regQ,
                   queueLogs, errLog, regIssued, regAdded, regFailed, mainDone,
                   invoked, timers, shutdown, drained, backendFailed>>

\* --------------------------------------------------------------------- Next
Next ==
    \/ \E r \in Requests, now \in 0..MaxClock : Ingress(r, now)
    \/ MainAddCommit
    \/ MainAddFail
    \/ DispatchRoute
    \/ DispatchUnroutable
    \/ RegionalAddCommit
    \/ RegionalAddFail
    \/ DispatchResume
    \/ \E q \in RegionalQueues, api \in {ApiV1, ApiV2} : RegionalProcess(q, api)
    \/ \E t \in timers : TimerFire(t)
    \/ Signal
    \/ \E q \in Queues : DrainResolve(q)
    \/ \E q \in Queues : DrainFail(q)
    \/ ExitZero

\* The reporter reads the queues and writes only its own output: Spec leaves
\* it out, and SpecReport runs it against the server before any signal.
Spec == Init /\ [][Next]_vars

\* The event loop runs every callback that is ready: the handlers on a
\* waiting job, an expired timer, the continuation of a resolved drain and
\* of Promise.all. Nothing obliges the store to answer an add, a client to
\* send a request or a signal to arrive.
LoopFairness ==
    /\ WF_vars(DispatchRoute)
    /\ WF_vars(DispatchUnroutable)
    /\ WF_vars(DispatchResume)
    /\ \A q \in RegionalQueues :
           WF_vars(\E api \in {ApiV1, ApiV2} : RegionalProcess(q, api))
    /\ WF_vars(\E t \in timers : TimerFire(t))
    /\ \A q \in Queues : WF_vars(DrainResolve(q))
    /\ WF_vars(ExitZero)

FairSpec == Spec /\ LoopFairness

\* The store answers every add it was sent, one way or the other.
StoreFairness ==
    /\ WF_vars(MainAddCommit \/ MainAddFail)
    /\ WF_vars(RegionalAddCommit \/ RegionalAddFail)

FairStoreSpec == Spec /\ LoopFairness /\ StoreFairness

ReportNext ==
    \/ \E r \in Requests, now \in 0..MaxClock : Ingress(r, now)
    \/ MainAddCommit
    \/ MainAddFail
    \/ DispatchRoute
    \/ DispatchUnroutable
    \/ RegionalAddCommit
    \/ RegionalAddFail
    \/ DispatchResume
    \/ \E q \in RegionalQueues, api \in {ApiV1, ApiV2} : RegionalProcess(q, api)
    \/ \E t \in timers : TimerFire(t)
    \/ Report

SpecReport == Init /\ [][ReportNext]_vars

\* =================================================================== claims
\* The routing table of the specification: region tag -> regional queue.
RegionTags == {"USA", "Europe", "India"}
QueueOfTag == [t \in RegionTags |->
                 IF t = "USA" THEN "usaQueue"
                 ELSE IF t = "Europe" THEN "europeQueue" ELSE "indiaQueue"]

Keys == DOMAIN accepted
LocationOf(k) == accepted[k].job.location
\* Regional adds called for job k.
Attempts(k) == Cardinality({i \in DOMAIN regIssued : regIssued[i][1] = k})
\* Regional adds of job k that committed to queue q, and to any queue.
CommitsIn(k, q) == Cardinality({i \in DOMAIN regAdded[q] : regAdded[q][i] = k})
Commits(k) == CommitsIn(k, "usaQueue") + CommitsIn(k, "europeQueue")
              + CommitsIn(k, "indiaQueue")
\* console.error calls with message m made for job k.
ErrCount(k, m) ==
    Cardinality({i \in DOMAIN errLog : errLog[i].key = k /\ errLog[i].msg = m})
IsPrefix(s, t) == Len(s) <= Len(t) /\ \A i \in DOMAIN s : s[i] = t[i]
\* A request that carries its three fields.
WellFormed(r) ==
    /\ r.method \notin {Undefined, ""}
    /\ r.url \notin {Undefined, ""}
    /\ r.location \notin {Undefined, ""}

DispatchSettles == mainPhase = "awaiting" /\ mainPhase' # "awaiting"

\* C2 (as stated): the dispatch of a job with location r makes r's queue one
\* job longer and leaves the other two regional queues as they were.
C2_DispatchAddsOne ==
    [][DispatchSettles =>
         \A t \in RegionTags :
             Head(mainQ).location = t =>
                 /\ Len(regQ'[QueueOfTag[t]]) = Len(regQ[QueueOfTag[t]]) + 1
                 /\ \A o \in RegionalQueues \ {QueueOfTag[t]} :
                        regQ'[o] = regQ[o]]_vars

\* C2 (amended): the dispatch of a job with location r makes r's queue one
\* job longer when the regional add commits and leaves it unchanged when the
\* add is rejected; the other two regional queues are unchanged either way.
C2_DispatchAddsOneUnlessRejected ==
    [][DispatchSettles =>
         \A t \in RegionTags :
             Head(mainQ).location = t =>
                 /\ Len(regQ'[QueueOfTag[t]]) =
                        Len(regQ[QueueOfTag[t]])
                        + (IF regFailed' # regFailed THEN 0 ELSE 1)
                 /\ \A o \in RegionalQueues \ {QueueOfTag[t]} :
                        regQ'[o] = regQ[o]]_vars

\* C2 witness: the add of a Europe job has committed while another job is
\* waiting in the USA queue.
C2_Witness ==
    /\ mainPhase = "added"
    /\ Head(mainQ).location = "Europe"
    /\ Len(regQ["europeQueue"]) = 1
    /\ Len(regQ["usaQueue"]) = 1

\* C3: at an exit with code 0 every queue has size 0.
C3_ExitZeroOnlyWhenEmpty ==
    (procState = "exited" /\ exitCode = 0) => \A q \in Queues : size(q) = 0

\* C4: once the termination signal was received no request is accepted:
\* every answer is a 503 and no add to the main queue is called.
C4_NoIntakeAfterSignal ==
    [][shutdown =>
         /\ nextKey' = nextKey
         /\ pendingMain' # pendingMain => Len(pendingMain') < Len(pendingMain)
         /\ resp' # resp => resp'.status = 503]_vars

\* C5: a failure raised by the backend call of a job never ends the process.
C5_BackendFailureContained ==
    ~(procState = "crashed" /\ crashCause = "backendCallback")

\* C6: a request lacking method, url or location is answered 400 "Invalid
\* request", and handling it changes no queue and not the trace log.
C6_InvalidRejectedUntouched ==
    [][(req' # req /\ ~WellFormed(req')) =>
         /\ resp' = [status |-> 400, field |-> "error",
                     text |-> "Invalid request"]
         /\ UNCHANGED <<pendingMain, mainQ, regQ, queueLogs, nextKey>>]_vars

\* C6 witness: a request without location was answered 400 while jobs of
\* earlier requests are in the queues.
C6_Witness ==
    /\ req.location = Undefined
    /\ resp.status = 400
    /\ mainQ # <<>>
    /\ queueLogs # <<>>

\* C7: no request answered 202 has a job that was not added to the main
\* queue.
C7_AcceptedImpliesQueued ==
    \A k \in Keys : accepted[k].status = 202 => k \notin mainFailed

\* C8: a job whose location is none of the three regions is added to no
\* regional queue, its dispatch changes no regional queue and completes the
\* main-queue job, and the invalid-location error is logged exactly once for
\* it, when it is dispatched.
C8_UnroutableDropped ==
    /\ [](\A k \in Keys :
            LocationOf(k) \notin RegionTags =>
                /\ Attempts(k) = 0
                /\ Commits(k) = 0
                /\ ErrCount(k, "Invalid location")
                       = IF k \in mainDone THEN 1 ELSE 0)
    /\ [][\A k \in Keys :
            (LocationOf(k) \notin RegionTags /\ k \in mainDone' \ mainDone) =>
                /\ regQ' = regQ
                /\ Head(mainQ).key = k
                /\ mainQ' = Tail(mainQ)]_vars

\* C8 witness: an unroutable job was dispatched while a regional queue holds
\* a job.
C8_Witness ==
    /\ \E k \in mainDone : LocationOf(k) \notin RegionTags
    /\ \E q \in RegionalQueues : regQ[q] # <<>>

\* C9: in every regional queue the backend is invoked for the jobs in the
\* order in which their adds committed.
C9_BackendInFifoOrder ==
    \A q \in RegionalQueues : IsPrefix(invoked[q], regAdded[q])

\* C9 witness: B was handed to the backend while the backend call of A, added
\* before B to the same queue, has not returned.
C9_Witness ==
    \E q \in RegionalQueues :
        /\ Len(invoked[q]) = 2
        /\ \E t \in timers : t.key = invoked[q][1]

\* C10: handling one job of a regional queue makes that queue exactly one
\* job shorter, and no queue ever has a negative size.
C10_ProcessShrinksByOne ==
    /\ [](\A q \in Queues : size(q) >= 0)
    /\ [][\A q \in RegionalQueues :
            invoked'[q] # invoked[q] => Len(regQ'[q]) = Len(regQ[q]) - 1]_vars

\* C10 witness: a regional job was handled and its queue is empty again.
C10_Witness ==
    \E q \in RegionalQueues : invoked[q] # <<>> /\ regQ[q] = <<>>

\* The console.error call of the catch callback of gracefulShutdown.
ShutdownError == [msg |-> "Error during graceful shutdown", key |-> 0,
                  location |-> "", requestId |-> -1]

\* C11: the process exits through gracefulShutdown only after the signal and
\* only in two ways: with code 0, the drains of all four queues having
\* resolved, or with code 1, the failure of a drain having been logged just
\* before; and no exit code other than 0 and 1 is ever given.
C11_ExitCodeFollowsDrains ==
    /\ [](procState = "exited" =>
            /\ shutdown
            /\ exitCode \in {0, 1}
            /\ exitCode = 0 => drained = Queues
            /\ exitCode = 1 =>
                 (errLog # <<>> /\ errLog[Len(errLog)] = ShutdownError))
    /\ [][(procState = "running" /\ procState' = "exited") =>
            \/ exitCode' = 0 /\ drained = Queues /\ errLog' = errLog
            \/ exitCode' = 1 /\ drained # Queues
                 /\ errLog' = Append(errLog, ShutdownError)]_vars

\* C11 witness: an exit with code 1 after three of the four drains resolved.
C11_Witness ==
    procState = "exited" /\ exitCode = 1 /\ Cardinality(drained) = 3

\* C12: two different jobs never carry the same requestId.
C12_IdsUnique ==
    \A j, k \in Keys :
        j # k => accepted[j].job.requestId # accepted[k].job.requestId

\* The size line the reporter is to print for queue q.
SizeLineOf(q) ==
    [text |-> (IF q = "mainQueue" THEN "Main queue size:"
               ELSE IF q = "usaQueue" THEN "USA queue size:"
               ELSE IF q = "europeQueue" THEN "Europe queue size:"
               ELSE "India queue size:"),
     arg |-> <<size(q)>>]

\* C13: every run of the reporter prints exactly one size line for each of
\* the four queues, whatever the sizes, and then one line per trace entry.
C13_ReportComplete ==
    [][console' # console =>
         /\ \A q \in Queues :
                Cardinality({i \in DOMAIN console' :
                                 console'[i] = SizeLineOf(q)}) = 1
         /\ Cardinality({i \in DOMAIN console' : console'[i].text = "queue:"})
                = Len(queueLogs)]_vars

\* C14: after the termination signal the process always ends.
C14_ShutdownEnds == shutdown ~> (procState # "running")

\* C15: while the backend call of a job has not returned, the job is still
\* in its regional queue: done() has not been called for it.
C15_DoneAfterBackendReturns ==
    \A t \in timers :
        \E q \in RegionalQueues :
            \E i \in DOMAIN regQ[q] : regQ[q][i].key = t.key

\* Backend invocations made for job k, by any regional worker.
Invocations(k) ==
    Cardinality({<<q, i>> \in RegionalQueues \X (1..MaxJobs) :
                     i \in DOMAIN invoked[q] /\ invoked[q][i] = k})
KeysIn(queue) == [i \in 1..Len(queue) |-> queue[i].key]

\* C16: the jobs that left a regional queue are exactly the jobs its own
\* worker handed to the backend, once each and in the order of their adds;
\* the jobs still waiting were not handed over, and no job is handed to the
\* backend twice, by any worker.
C16_OneInvocationPerJob ==
    /\ \A q \in RegionalQueues :
           regAdded[q] = invoked[q] \o KeysIn(regQ[q])
    /\ \A k \in Keys : Invocations(k) <= 1

\* C16 witness: the workers of two regions have each handled a job.
C16_Witness ==
    \E q1, q2 \in RegionalQueues :
        q1 # q2 /\ Len(invoked[q1]) = 1 /\ Len(invoked[q2]) = 1

\* C17: for every job whose backend call failed the worker has logged the
\* error with the job's id, once.
C17_BackendFailureLogged ==
    \A k \in backendFailed : ErrCount(k, "Error processing job") = 1

\* Entries of the trace log for job k that name queue q.
Entries(k, q) ==
    {i \in DOMAIN queueLogs :
         queueLogs[i].queue = q /\ queueLogs[i].request.key = k}
InQueue(k, queue) == \E i \in DOMAIN queue : queue[i].key = k

\* C18: the trace log names a queue for a job exactly when the add of the
\* job into that queue committed: no entry for an add that was rejected, and
\* an entry for every job that is or was in a queue once the handler that
\* added it has gone on.
C18_LogMatchesCommittedAdds ==
    \A k \in Keys :
        /\ k \in mainFailed => Entries(k, "mainQueue") = {}
        /\ (InQueue(k, mainQ) \/ k \in mainDone) =>
               Cardinality(Entries(k, "mainQueue")) = 1
        /\ \A q \in RegionalQueues :
               /\ Entries(k, q) # {} => CommitsIn(k, q) = 1
               /\ (CommitsIn(k, q) = 1 /\ k \in mainDone) =>
                      Cardinality(Entries(k, q)) = 1

\* C19: every job added to the main queue is eventually removed from it by
\* done() (an end of the process forced from outside the job handlers, by a
\* failed drain or by the rejected add of another request, aside).
C19_MainJobEventuallyDone ==
    \A k \in 1..MaxJobs :
        InQueue(k, mainQ) ~>
            (k \in mainDone \/ exitCode = 1 \/ crashCause = "unhandledRejection")

====
